---------------------------- MODULE Spec2Model ----------------------------
(***************************************************************************)
(* Folio registry (sheet "pickings"), detail ledger (sheet                 *)
(* "detalle_pickings") and user registry (sheet "usuarios") of the         *)
(* pickings control system, as state machines over the remote sheets.      *)
(*                                                                         *)
(* A string is a sequence of atoms.  An atom is one character ("0", "A",   *)
(* " ", "\n") or a whole literal of the program that is never taken apart  *)
(* ("FOLIO", "PENDIENTE", "Admin").  A sheet is a sequence of rows, row 1  *)
(* the header row, and a row is a sequence of cells (strings); an empty    *)
(* cell is the empty string.                                               *)
(***************************************************************************)
EXTENDS Integers, Sequences, FiniteSets, TLC

VARIABLES
    pickings,   \* sheet "pickings": the folio registry, header row first
    detail,     \* sheet "detalle_pickings": the detail ledger
    users,      \* sheet "usuarios": the user registry
    now,        \* the wall clock read by datetime.now()
    call,       \* the last call: its operation, arguments and result
    retry,      \* the with_retry invocation in progress
    screen,     \* the messages the screen has shown for the last action
    procs       \* the concurrent sessions: each one's position and locals

vars == <<pickings, detail, users, now, call, retry, screen, procs>>

\* ------------------------------------------------------------ bounds
MaxClock == 1      \* the clock runs over 0..MaxClock
MaxBatch == 2      \* rows of one imported file
MaxFolios == 2     \* data rows of the registry in the import runs
MaxDetail == 2     \* data rows of the detail ledger
MaxUsers == 3      \* rows of the users sheet besides its header

\* ------------------------------------------------------------ strings
S(a) == <<a>>

Digit == <<"0", "1", "2", "3", "4", "5", "6", "7", "8", "9">>

IsDigit(c) == \E i \in 1..10 : Digit[i] = c

DigitValue(c) == (CHOOSE i \in 1..10 : Digit[i] = c) - 1

IsSpace(c) == c = " " \/ c = "\n"

\* str.strip()
RECURSIVE LStrip(_)
LStrip(s) == IF s # <<>> /\ IsSpace(Head(s)) THEN LStrip(Tail(s)) ELSE s

RECURSIVE RStrip(_)
RStrip(s) ==
    IF s # <<>> /\ IsSpace(s[Len(s)]) THEN RStrip(SubSeq(s, 1, Len(s) - 1)) ELSE s

Strip(s) == RStrip(LStrip(s))

\* a in b, on strings
Contains(b, a) ==
    \E i \in 0..(Len(b) - Len(a)) : SubSeq(b, i + 1, i + Len(a)) = a

\* str(n) for n >= 0, which is also how the sheet shows a number cell
RECURSIVE StrOfInt(_)
StrOfInt(n) ==
    IF n < 10 THEN <<Digit[n + 1]>> ELSE StrOfInt(n \div 10) \o <<Digit[(n % 10) + 1]>>

\* int(s) accepts surrounding blanks around a run of digits
IsIntLiteral(s) ==
    /\ Strip(s) # <<>>
    /\ \A i \in 1..Len(Strip(s)) : IsDigit(Strip(s)[i])

RECURSIVE DigitsValue(_)
DigitsValue(d) ==
    IF d = <<>> THEN 0
    ELSE 10 * DigitsValue(SubSeq(d, 1, Len(d) - 1)) + DigitValue(d[Len(d)])

IntOf(s) == DigitsValue(Strip(s))

\* the entries of a newline-joined list
RECURSIVE CountAtom(_, _)
CountAtom(s, a) ==
    IF s = <<>> THEN 0 ELSE (IF Head(s) = a THEN 1 ELSE 0) + CountAtom(Tail(s), a)

NumEntries(s) == IF s = <<>> THEN 0 ELSE 1 + CountAtom(s, "\n")

\* ------------------------------------------------------------ the store
REQUIRED_COLUMNS ==
    << "REGION", "FECHA_ENTREGA", "RUTA", "FOLIO", "CAPTURISTA", "EVENTO",
       "FINANCIAMIENTO", "ESTATUS", "FECHA_ULTIMO_EVENTO",
       "FOLIO DOCUMENTOS POR PICKING", "# FOLIOS DOCUMENTOS", "CUENTA FOLIOS",
       "FOLIOS SCALD", "ESTATUS FOLIOS SCALD" >>

DETAIL_COLUMNS ==
    << "QR_DATA", "FOLIO_PADRE", "CAPTURISTA", "ESTATUS_ITEM", "FECHA_ESCANEO",
       "DETALLES_EXTRA" >>

USER_COLUMNS == << "USUARIO", "ROL", "FECHA_CREACION" >>

HeaderRow(cols) == [i \in 1..Len(cols) |-> S(cols[i])]

\* datetime.now().strftime("%Y-%m-%d %H:%M:%S"): one string per clock value
Timestamp(t) == <<"2024-01-01 00:00:0">> \o StrOfInt(t)

\* datetime.now().strftime("%Y-%m-%d")
DateStamp(t) == <<"2024-01-0">> \o StrOfInt(t + 1)

\* worksheet.find(query).row: the row of the first cell of the whole sheet,
\* header and every column included, whose value equals query; 0 when no
\* cell does (find returns None).
find(ws, query) ==
    LET hits == {rc \in UNION {{<<i, j>> : j \in 1..Len(ws[i])} : i \in 1..Len(ws)} :
                    ws[rc[1]][rc[2]] = query}
    IN  IF hits = {} THEN 0
        ELSE (CHOOSE rc \in hits :
                \A o \in hits : rc[1] < o[1] \/ (rc[1] = o[1] /\ rc[2] <= o[2]))[1]

\* headers.index(name) + 1, and 0 for the ValueError
IndexOf(headers, name) ==
    IF \E i \in 1..Len(headers) : headers[i] = S(name)
    THEN CHOOSE i \in 1..Len(headers) :
            headers[i] = S(name) /\ \A j \in 1..(i - 1) : headers[j] # S(name)
    ELSE 0

\* worksheet.row_values(1)
row_values(ws, r) == IF r <= Len(ws) THEN ws[r] ELSE <<>>

\* worksheet.cell(r, c).value or ""
cell_value(ws, r, c) == ws[r][c]

\* worksheet.batch_update(updates): updates is a sequence of <<row, col, value>>
RECURSIVE batch_update(_, _)
batch_update(ws, updates) ==
    IF updates = <<>> THEN ws
    ELSE LET u == Head(updates)
         IN  batch_update([ws EXCEPT ![u[1]][u[2]] = u[3]], Tail(updates))

append_row(ws, row) == Append(ws, row)

append_rows(ws, rows) == ws \o rows

delete_rows(ws, r) == SubSeq(ws, 1, r - 1) \o SubSeq(ws, r + 1, Len(ws))

\* ------------------------------------------------------------ folio registry
COL_FOLIO == 4
COL_CAPTURISTA == 5
COL_EVENTO == 6
COL_ESTATUS == 8
COL_FECHA == 9
COL_DOCS == 10
COL_COUNT == 11

Result(ws, ok, msg) == [ws |-> ws, ok |-> ok, msg |-> msg]

MSG_FOLIO_NOT_FOUND == S("Folio not found")
MSG_HEADERS_MISMATCH == S("Column headers mismatch")
MSG_STATUS_UPDATED == S("Status updated successfully")
MSG_CAPTURISTA_UPDATED == S("Capturista updated successfully")
MSG_PARENT_NOT_FOUND == S("Folio padre no encontrado en base maestra.")
MSG_COLUMNS_NOT_FOUND == S("Columnas requeridas no encontradas en la hoja.")
MSG_ALREADY_SCANNED == S("Este documento ya fue escaneado para este folio.")
MSG_ADDED == S("Agregado correctamente. Conteo actual: ")

update_status(ws, folio, new_status, user_name, t) ==
    LET row_idx == find(ws, folio)
        headers == row_values(ws, 1)
        status_col == IndexOf(headers, "ESTATUS")
        event_col == IndexOf(headers, "EVENTO")
        date_col == IndexOf(headers, "FECHA_ULTIMO_EVENTO")
        updates ==
            << <<row_idx, status_col, new_status>>,
               <<row_idx, event_col,
                 S("Status changed to ") \o new_status \o S(" by ") \o user_name>>,
               <<row_idx, date_col, Timestamp(t)>> >>
    IN  IF row_idx = 0 THEN Result(ws, FALSE, MSG_FOLIO_NOT_FOUND)
        ELSE IF status_col = 0 \/ event_col = 0 \/ date_col = 0
             THEN Result(ws, FALSE, MSG_HEADERS_MISMATCH)
        ELSE Result(batch_update(ws, updates), TRUE, MSG_STATUS_UPDATED)

reassign_capturista(ws, folio, new_capturista, user_name, t) ==
    LET row_idx == find(ws, folio)
        headers == row_values(ws, 1)
        capturista_col == IndexOf(headers, "CAPTURISTA")
        event_col == IndexOf(headers, "EVENTO")
        date_col == IndexOf(headers, "FECHA_ULTIMO_EVENTO")
        updates ==
            << <<row_idx, capturista_col, new_capturista>>,
               <<row_idx, event_col,
                 S("Reassigned to ") \o new_capturista \o S(" by ") \o user_name>>,
               <<row_idx, date_col, Timestamp(t)>> >>
    IN  IF row_idx = 0 THEN Result(ws, FALSE, MSG_FOLIO_NOT_FOUND)
        ELSE IF capturista_col = 0 \/ event_col = 0 \/ date_col = 0
             THEN Result(ws, FALSE, MSG_HEADERS_MISMATCH)
        ELSE Result(batch_update(ws, updates), TRUE, MSG_CAPTURISTA_UPDATED)

\* int(current_count) if current_count else 0, and 0 when int() raises
SafeCount(v) == IF v # <<>> /\ IsIntLiteral(v) THEN IntOf(v) ELSE 0

NewDocsNoSeparator(current_docs, scanned_qr) == current_docs \o scanned_qr

\* the list after the append: f"{current_docs}\n{scanned_qr}", or scanned_qr
NewDocs(current_docs, scanned_qr) ==
    IF current_docs # <<>> THEN current_docs \o S("\n") \o scanned_qr ELSE scanned_qr

\* the first-scan promotion: status is empty or PENDIENTE
NeedsPromotion(current_status) ==
    current_status = <<>> \/ current_status = S("PENDIENTE")

increment_folio_count(ws, folio, scanned_qr) ==
    LET row_idx == find(ws, folio)
        headers == row_values(ws, 1)
        docs_col == IndexOf(headers, "FOLIO DOCUMENTOS POR PICKING")
        count_col == IndexOf(headers, "# FOLIOS DOCUMENTOS")
        status_col == IndexOf(headers, "ESTATUS")
    IN  IF row_idx = 0 THEN Result(ws, FALSE, MSG_PARENT_NOT_FOUND)
        ELSE IF docs_col = 0 \/ count_col = 0 \/ status_col = 0
             THEN Result(ws, FALSE, MSG_COLUMNS_NOT_FOUND)
        ELSE
            LET current_docs == cell_value(ws, row_idx, docs_col)
                current_count == SafeCount(cell_value(ws, row_idx, count_col))
                new_docs == NewDocs(current_docs, scanned_qr)
                new_count == current_count + 1
                current_status == cell_value(ws, row_idx, status_col)
                updates ==
                    << <<row_idx, docs_col, new_docs>>,
                       <<row_idx, count_col, StrOfInt(new_count)>> >>
                    \o (IF NeedsPromotion(current_status)
                        THEN << <<row_idx, status_col, S("IMPRESOS")>> >>
                        ELSE <<>>)
            IN  IF Contains(current_docs, scanned_qr)
                THEN Result(ws, FALSE, MSG_ALREADY_SCANNED)
                ELSE Result(batch_update(ws, updates), TRUE,
                            MSG_ADDED \o StrOfInt(new_count))

\* ------------------------------------------------------------ bulk import
\* A blank cell of the uploaded file, as pandas.read_excel reads it: the
\* float NaN, which is truthy and whose str() is "nan".
NaN == <<"#NaN">>

PyStr(val) == IF val = NaN THEN S("nan") ELSE val

Truthy(val) == val # <<>>

\* row.get(col, default) on a row of the uploaded file: a function from the
\* file's columns to cell values.
RowGet(row, col, default) == IF col \in DOMAIN row THEN row[col] ELSE default

\* A cell of get_all_records() after astype(str): gspread numericises the
\* values it returns, so a cell that int() accepts comes back as that number.
NumericisedStr(v) == IF IsIntLiteral(v) THEN StrOfInt(IntOf(v)) ELSE v

\* set(existing_df["FOLIO"].astype(str).str.strip()), the empty set when the
\* sheet has no record or no FOLIO column
ExistingFolios(ws) ==
    LET folio_col == IndexOf(row_values(ws, 1), "FOLIO")
    IN  IF Len(ws) < 2 \/ folio_col = 0 THEN {}
        ELSE {Strip(NumericisedStr(ws[r][folio_col])) : r \in 2..Len(ws)}

\* the record staged for one row of the file, in REQUIRED_COLUMNS order
NewRecord(row, t) ==
    [i \in 1..Len(REQUIRED_COLUMNS) |->
        LET col == REQUIRED_COLUMNS[i]
            val == RowGet(row, col, <<>>)
        IN  IF col = "ESTATUS" /\ ~Truthy(val) THEN S("PENDIENTE")
            ELSE IF col = "FECHA_ULTIMO_EVENTO" /\ ~Truthy(val) THEN Timestamp(t)
            ELSE PyStr(val)]

\* the loop over new_df.iterrows(): acc carries existing_folios,
\* records_to_add, added_count and duplicates_count
RECURSIVE ImportLoop(_, _, _)
ImportLoop(rows, acc, t) ==
    IF rows = <<>> THEN acc
    ELSE
        LET row == Head(rows)
            folio == Strip(PyStr(RowGet(row, "FOLIO", <<>>)))
        IN  IF folio = <<>> \/ folio \in acc.existing_folios
            THEN ImportLoop(Tail(rows),
                    [acc EXCEPT !.duplicates_count = @ + 1], t)
            ELSE ImportLoop(Tail(rows),
                    [acc EXCEPT !.records_to_add = Append(@, NewRecord(row, t)),
                                !.existing_folios = @ \cup {folio},
                                !.added_count = @ + 1], t)

MSG_MISSING_COLUMNS == S("Missing required columns in Excel: ['FOLIO']")
MSG_NO_NEW_RECORDS == S("No new records to add (all duplicates).")

\* new_df is [columns |-> the file's column names, upper-cased and trimmed,
\*            rows |-> its rows]
sync_excel_data(ws, new_df, t) ==
    LET acc == ImportLoop(new_df.rows,
                   [existing_folios |-> ExistingFolios(ws), records_to_add |-> <<>>,
                    added_count |-> 0, duplicates_count |-> 0], t)
        counts == [added_count |-> acc.added_count,
                   duplicates_count |-> acc.duplicates_count]
    IN  IF "FOLIO" \notin new_df.columns
        THEN Result(ws, FALSE, MSG_MISSING_COLUMNS)
                @@ [added_count |-> 0, duplicates_count |-> 0]
        ELSE IF acc.records_to_add # <<>>
        THEN Result(append_rows(ws, acc.records_to_add), TRUE,
                    S("Successfully added ") \o StrOfInt(acc.added_count)
                    \o S(" new records. Skipped ") \o StrOfInt(acc.duplicates_count)
                    \o S(" duplicates.")) @@ counts
        ELSE Result(ws, TRUE, MSG_NO_NEW_RECORDS) @@ counts

\* ------------------------------------------------------------ initial sheets
EmptyPickings == <<HeaderRow(REQUIRED_COLUMNS)>>

EmptyDetail == <<HeaderRow(DETAIL_COLUMNS)>>

\* the users sheet as get_or_create_users_worksheet creates it
InitialUsers(t) ==
    <<HeaderRow(USER_COLUMNS), <<S("Admin"), S("RESPONSABLE"), DateStamp(t)>>>>

NoCall == [op |-> "none"]

\* no with_retry invocation in progress
NoRetry == [status |-> "idle"]

\* nothing shown yet
NoScreen == <<>>

\* no concurrent session started
NoProcs == <<>>

\* A file with the columns FOLIO and, when statuses is given, ESTATUS.
Frame(folios, statuses) ==
    IF statuses = <<>>
    THEN [columns |-> {"FOLIO"},
          rows |-> [i \in 1..Len(folios) |-> [c \in {"FOLIO"} |-> folios[i]]]]
    ELSE [columns |-> {"FOLIO", "ESTATUS"},
          rows |-> [i \in 1..Len(folios) |->
                      [c \in {"FOLIO", "ESTATUS"} |->
                          IF c = "FOLIO" THEN folios[i] ELSE statuses[i]]]]

\* The registries the scan and status runs start from: what Bulk import
\* leaves in an empty registry for these files.
InitFrames ==
    { Frame(<<S("A"), S("1")>>, <<>>),
      Frame(<<S("1"), S("A")>>, <<>>),
      Frame(<<S("A"), S("1")>>, <<S("LIBERADO"), <<>>>>) }

InitRegistries == {sync_excel_data(EmptyPickings, f, 0).ws : f \in InitFrames}

\* ------------------------------------------------------------ warehouse reception
\* The folio and the scanned code handed to increment_folio_count: a folio
\* key, a text that is also a column header, and single-line scan strings,
\* one of them a substring of another.
ScanFolios == {S("A"), S("1"), S("ESTATUS")}

ScanCodes == {S("1"), <<"1", "2">>, S("A")}

IncrementFolioCount ==
    \E folio \in ScanFolios, scanned_qr \in ScanCodes :
        LET res == increment_folio_count(pickings, folio, scanned_qr)
        IN  /\ pickings' = res.ws
            /\ call' = [op |-> "increment_folio_count", folio |-> folio,
                        scanned_qr |-> scanned_qr, ok |-> res.ok, msg |-> res.msg]
            /\ UNCHANGED <<detail, users, now, retry, screen, procs>>

InitCount ==
    /\ pickings \in InitRegistries
    /\ detail = EmptyDetail
    /\ users = InitialUsers(0)
    /\ now = 0
    /\ call = NoCall
    /\ retry = NoRetry
    /\ screen = NoScreen
    /\ procs = NoProcs

NextCount == IncrementFolioCount

SpecCount == InitCount /\ [][NextCount]_vars

\* ------------------------------------------------------------ claims: reception
IsIncrement(c) == c.op = "increment_folio_count"

\* the data rows of the registry whose folio key is folio
RowsOfFolio(ws, folio) == {r \in 2..Len(ws) : ws[r][COL_FOLIO] = folio}

\* the count cell of a row shows the number n (an empty cell counts as 0)
ShowsCount(cell, n) == cell = StrOfInt(n) \/ (n = 0 /\ cell = <<>>)

C3_FirstScanPromotion ==
    [][(IsIncrement(call') /\ call'.ok) =>
          \A r \in RowsOfFolio(pickings, call'.folio) :
              IF pickings[r][COL_ESTATUS] \in {<<>>, S("PENDIENTE")}
              THEN /\ pickings'[r][COL_ESTATUS] = S("IMPRESOS")
                   /\ pickings'[r][COL_DOCS] # pickings[r][COL_DOCS]
                   /\ pickings'[r][COL_COUNT] # pickings[r][COL_COUNT]
              ELSE pickings'[r][COL_ESTATUS] = pickings[r][COL_ESTATUS]]_vars

\* C4: Increment document count on a folio fails with DuplicateScan exactly
\* when the code is a substring of the folio's stored list, and then leaves
\* the folio's row unchanged; otherwise it appends the code, newline
\* separated, and the counter grows by one.
C4_DuplicateExactly ==
    [][IsIncrement(call') =>
          \A r \in RowsOfFolio(pickings, call'.folio) :
              IF Contains(pickings[r][COL_DOCS], call'.scanned_qr)
              THEN /\ ~call'.ok /\ call'.msg = MSG_ALREADY_SCANNED
                   /\ pickings'[r] = pickings[r]
              ELSE /\ call'.ok
                   /\ pickings'[r][COL_DOCS] =
                        (IF pickings[r][COL_DOCS] = <<>> THEN call'.scanned_qr
                         ELSE pickings[r][COL_DOCS] \o S("\n") \o call'.scanned_qr)
                   /\ ShowsCount(pickings'[r][COL_COUNT],
                                 NumEntries(pickings[r][COL_DOCS]) + 1)]_vars

\* ------------------------------------------------------------ import runs
Tick ==
    /\ now < MaxClock
    /\ now' = now + 1
    /\ call' = NoCall
    /\ UNCHANGED <<pickings, detail, users, retry, screen, procs>>

\* FOLIO cells of an uploaded file: two keys, one of them with a leading
\* zero, a cell of blanks and a blank cell.
ImportFolioCells == {S("A"), <<"0", "1">>, S(" "), NaN}

\* ESTATUS cells of an uploaded file that has the column
ImportStatusCells == {S("LIBERADO"), NaN}

ImportFrames ==
    UNION {{Frame(f, <<>>) : f \in [1..k -> ImportFolioCells]} : k \in 1..MaxBatch}
    \cup UNION {{Frame(f, s) : f \in [1..k -> ImportFolioCells],
                               s \in [1..k -> ImportStatusCells]} : k \in 1..MaxBatch}
    \cup {[columns |-> {"ESTATUS"}, rows |-> <<[c \in {"ESTATUS"} |-> NaN]>>]}

SyncExcelData ==
    \E new_df \in ImportFrames :
        LET res == sync_excel_data(pickings, new_df, now)
        IN  /\ \A i \in 1..Len(new_df.rows) : DOMAIN new_df.rows[i] = new_df.columns
            /\ Len(res.ws) <= 1 + MaxFolios
            /\ pickings' = res.ws
            /\ call' = [op |-> "sync_excel_data", new_df |-> new_df, ok |-> res.ok,
                        msg |-> res.msg, added_count |-> res.added_count,
                        duplicates_count |-> res.duplicates_count]
            /\ UNCHANGED <<detail, users, now, retry, screen, procs>>

InitImport ==
    /\ pickings = EmptyPickings
    /\ detail = EmptyDetail
    /\ users = InitialUsers(0)
    /\ now = 0
    /\ call = NoCall
    /\ retry = NoRetry
    /\ screen = NoScreen
    /\ procs = NoProcs

NextImport == SyncExcelData \/ Tick

SpecImport == InitImport /\ [][NextImport]_vars

\* ------------------------------------------------------------ claims: import
IsImport(c) == c.op = "sync_excel_data" /\ "FOLIO" \in c.new_df.columns

\* the folio key a row of the file carries: its FOLIO cell, trimmed, and
\* nothing for a blank cell
FolioText(row) == IF row["FOLIO"] = NaN THEN <<>> ELSE Strip(row["FOLIO"])

\* the row of the file has no status: no ESTATUS column, or a blank cell
NoStatus(row) ==
    "ESTATUS" \notin DOMAIN row \/ row["ESTATUS"] = NaN \/ row["ESTATUS"] = <<>>

FolioKeys(ws) == {Strip(ws[r][COL_FOLIO]) : r \in 2..Len(ws)}

\* the rows of the file that an insert-only import adds: a non-empty folio
\* that is neither in the registry nor earlier in the file
IsNew(rows, i, ws) ==
    /\ FolioText(rows[i]) # <<>>
    /\ FolioText(rows[i]) \notin FolioKeys(ws)
    /\ \A j \in 1..(i - 1) : FolioText(rows[j]) # FolioText(rows[i])

RECURSIVE NewFolios(_, _, _)
NewFolios(rows, i, ws) ==
    IF i > Len(rows) THEN <<>>
    ELSE (IF IsNew(rows, i, ws) THEN <<FolioText(rows[i])>> ELSE <<>>)
         \o NewFolios(rows, i + 1, ws)

UniqueFolios(ws) ==
    \A r1, r2 \in 2..Len(ws) : ws[r1][COL_FOLIO] = ws[r2][COL_FOLIO] => r1 = r2

\* C5: Bulk import is insert-only: every row of the registry is unchanged by
\* it, the rows it appends are exactly the rows of the file whose folio is
\* non-empty and not already present, in the file's order, and every row of
\* the file is counted as added or as skipped.
C5_ImportInsertOnly ==
    [][IsImport(call') =>
          LET rows == call'.new_df.rows
              appended == SubSeq(pickings', Len(pickings) + 1, Len(pickings'))
          IN  /\ Len(pickings') >= Len(pickings)
              /\ SubSeq(pickings', 1, Len(pickings)) = pickings
              /\ [k \in 1..Len(appended) |-> Strip(appended[k][COL_FOLIO])]
                    = NewFolios(rows, 1, pickings)
              /\ call'.added_count = Len(appended)
              /\ call'.added_count + call'.duplicates_count = Len(rows)]_vars

\* C6: after Bulk import calls from an empty registry no two rows share a
\* folio key, a folio repeated in one file being added once, and every row
\* added from a row of the file with no status has status PENDIENTE.
C6_ImportUniqueDefault ==
    [][IsImport(call') =>
          LET rows == call'.new_df.rows
          IN  /\ UniqueFolios(pickings')
              /\ \A k \in (Len(pickings) + 1)..Len(pickings') :
                 \A i \in 1..Len(rows) :
                    (/\ FolioText(rows[i]) = Strip(pickings'[k][COL_FOLIO])
                     /\ \A j \in 1..(i - 1) : FolioText(rows[j]) # FolioText(rows[i])
                     /\ NoStatus(rows[i]))
                    => pickings'[k][COL_ESTATUS] = S("PENDIENTE")]_vars

\* ------------------------------------------------------------ status runs
\* The folio handed to update_status and reassign_capturista: the folio keys
\* of the registry and a text that is the key of no row.
StatusFolios == {S("A"), S("1"), S("B")}

NewStatuses == {S("PENDIENTE"), S("LIBERADO")}

\* the capturistas a folio is reassigned to: user names, one of them "1"
Capturistas == {S("1"), S("B")}

Actors == {S("Admin")}

UpdateStatus ==
    \E folio \in StatusFolios, new_status \in NewStatuses, user_name \in Actors :
        LET res == update_status(pickings, folio, new_status, user_name, now)
        IN  /\ pickings' = res.ws
            /\ call' = [op |-> "update_status", folio |-> folio,
                        new_status |-> new_status, user_name |-> user_name,
                        ok |-> res.ok, msg |-> res.msg]
            /\ UNCHANGED <<detail, users, now, retry, screen, procs>>

ReassignCapturista ==
    \E folio \in StatusFolios, new_capturista \in Capturistas, user_name \in Actors :
        LET res == reassign_capturista(pickings, folio, new_capturista, user_name, now)
        IN  /\ pickings' = res.ws
            /\ call' = [op |-> "reassign_capturista", folio |-> folio,
                        new_capturista |-> new_capturista, user_name |-> user_name,
                        ok |-> res.ok, msg |-> res.msg]
            /\ UNCHANGED <<detail, users, now, retry, screen, procs>>

InitStatus == InitCount

NextStatus == UpdateStatus \/ ReassignCapturista \/ Tick

SpecStatus == InitStatus /\ [][NextStatus]_vars

\* ------------------------------------------------------------ claims: status
IsUpdateStatus(c) == c.op = "update_status"

IsReassign(c) == c.op = "reassign_capturista"

\* C9: Update status on an existing folio succeeds whatever the current and
\* the new status are (the same status, a step backwards, from LIBERADO),
\* and after it the folio's status is new_status and its last_event and
\* last_event_at are those of this call.
C9_UpdateStatusAnyTransition ==
    [][IsUpdateStatus(call') =>
          \A r \in RowsOfFolio(pickings, call'.folio) :
              /\ call'.ok
              /\ pickings'[r][COL_ESTATUS] = call'.new_status
              /\ pickings'[r][COL_EVENTO] =
                    S("Status changed to ") \o call'.new_status
                        \o S(" by ") \o call'.user_name
              /\ pickings'[r][COL_FECHA] = Timestamp(now)]_vars

\* the cells of a row outside cols are the same in ws1 and ws2
SameExcept(ws1, ws2, r, cols) ==
    /\ Len(ws2[r]) = Len(ws1[r])
    /\ \A c \in 1..Len(ws1[r]) : c \notin cols => ws2[r][c] = ws1[r][c]

\* C10: a successful Update status or Reassign on a folio modifies only the
\* row whose folio key is the argument, and in it only status (resp.
\* assignee), last_event and last_event_at: every other row, and that row's
\* scanned_doc_list and scanned_doc_count, are unchanged.
C10_UpdateFrame ==
    [][((IsUpdateStatus(call') \/ IsReassign(call')) /\ call'.ok) =>
          \A r \in RowsOfFolio(pickings, call'.folio) :
              /\ Len(pickings') = Len(pickings)
              /\ \A q \in 1..Len(pickings) : q # r => pickings'[q] = pickings[q]
              /\ SameExcept(pickings, pickings', r,
                    {COL_EVENTO, COL_FECHA,
                     IF IsUpdateStatus(call') THEN COL_ESTATUS ELSE COL_CAPTURISTA})]_vars

\* ------------------------------------------------------------ detail ledger
COL_QR_DATA == 1
COL_FOLIO_PADRE == 2

MSG_QR_DUPLICATE(row) ==
    S("Este QR ya fue registrado previamente (Fila ") \o StrOfInt(row) \o S(").")

MSG_QR_INVALID == S("Formato de QR invalido o no legible.")

MSG_QR_REGISTERED == S("QR registrado exitosamente. Folio vinculado: ")

\* qr_string.split("|")[0]
RECURSIVE FirstSegment(_)
FirstSegment(s) ==
    IF s = <<>> \/ Head(s) = "|" THEN <<>> ELSE <<Head(s)>> \o FirstSegment(Tail(s))

ParseWithoutStrip(qr_string) ==
    IF qr_string = <<>> THEN [folio |-> <<>>, extra |-> <<>>]
    ELSE IF Contains(qr_string, S("|"))
         THEN [folio |-> FirstSegment(qr_string), extra |-> qr_string]
    ELSE [folio |-> qr_string, extra |-> S("Raw QR")]

\* parse_qr_code returns (folio, extra); (None, None) is (<<>>, <<>>)
parse_qr_code(qr_string) ==
    IF qr_string = <<>> THEN [folio |-> <<>>, extra |-> <<>>]
    ELSE IF Contains(qr_string, S("|"))
         THEN [folio |-> Strip(FirstSegment(qr_string)), extra |-> qr_string]
    ELSE [folio |-> Strip(qr_string), extra |-> S("Raw QR")]

RegisterWithoutLookup(ws, qr_data, capturista, status, forced_folio, t) ==
    LET parsed == IF forced_folio # <<>>
                  THEN [folio |-> forced_folio, extra |-> qr_data]
                  ELSE parse_qr_code(qr_data)
    IN  IF parsed.folio = <<>> THEN Result(ws, FALSE, MSG_QR_INVALID)
        ELSE Result(append_row(ws, <<qr_data, parsed.folio, capturista, status,
                                     Timestamp(t), parsed.extra>>),
                    TRUE, MSG_QR_REGISTERED \o parsed.folio)

\* forced_folio = None is the empty string
register_qr_scan(ws, qr_data, capturista, status, forced_folio, t) ==
    LET cell_row == find(ws, qr_data)
        parsed == IF forced_folio # <<>>
                  THEN [folio |-> forced_folio, extra |-> qr_data]
                  ELSE parse_qr_code(qr_data)
    IN  IF cell_row # 0 THEN Result(ws, FALSE, MSG_QR_DUPLICATE(cell_row))
        ELSE IF parsed.folio = <<>> THEN Result(ws, FALSE, MSG_QR_INVALID)
        ELSE Result(append_row(ws, <<qr_data, parsed.folio, capturista, status,
                                     Timestamp(t), parsed.extra>>),
                    TRUE, MSG_QR_REGISTERED \o parsed.folio)

\* The scanned strings: a bare folio, a piped code of that folio, a piped
\* code with an empty first segment, and a blank.
ScanStrings == {S("F"), <<"F", "|", "x">>, <<"|", "x">>, S(" ")}

ForcedFolios == {<<>>, S("F")}

RegisterQrScan ==
    \E qr_data \in ScanStrings, forced_folio \in ForcedFolios, capturista \in Actors :
        LET res == register_qr_scan(detail, qr_data, capturista, S("SURTIDO"),
                                    forced_folio, now)
        IN  /\ Len(res.ws) <= 1 + MaxDetail
            /\ detail' = res.ws
            /\ call' = [op |-> "register_qr_scan", qr_data |-> qr_data,
                        forced_folio |-> forced_folio, capturista |-> capturista,
                        ok |-> res.ok, msg |-> res.msg]
            /\ UNCHANGED <<pickings, users, now, retry, screen, procs>>

InitScan ==
    /\ pickings = EmptyPickings
    /\ detail = EmptyDetail
    /\ users = InitialUsers(0)
    /\ now = 0
    /\ call = NoCall
    /\ retry = NoRetry
    /\ screen = NoScreen
    /\ procs = NoProcs

NextScan == RegisterQrScan \/ Tick

SpecScan == InitScan /\ [][NextScan]_vars

\* ------------------------------------------------------------ claims: ledger
IsRegister(c) == c.op = "register_qr_scan"

RecordsOfQr(ws, qr_data) == {r \in 2..Len(ws) : ws[r][COL_QR_DATA] = qr_data}

UniqueQr(ws) == \A r1, r2 \in 2..Len(ws) :
                    ws[r1][COL_QR_DATA] = ws[r2][COL_QR_DATA] => r1 = r2

\* C1: over any sequence of Register scan calls no two records of the ledger
\* share qr_data, and a call whose qr_data is the key of a record of the
\* ledger fails with DuplicateScan and appends nothing.
C1_ScanUniqueness ==
    [][IsRegister(call') =>
          /\ UniqueQr(detail')
          /\ RecordsOfQr(detail, call'.qr_data) # {} =>
                /\ ~call'.ok
                /\ \E r \in 1..Len(detail) : call'.msg = MSG_QR_DUPLICATE(r)
                /\ detail' = detail]_vars

\* C1 witness: a repeated qr_data was refused with a ledger of two records.
C1_Witness ==
    /\ IsRegister(call) /\ ~call.ok
    /\ RecordsOfQr(detail, call.qr_data) # {}
    /\ Len(detail) = 3

\* ------------------------------------------------------------ user registry
COL_USUARIO == 1

MSG_USER_EXISTS == S("El usuario ya existe.")
MSG_USER_CREATED == S("Usuario creado exitosamente.")
MSG_ADMIN_PROTECTED == S("No se puede eliminar al usuario Admin.")
MSG_USER_NOT_FOUND == S("Usuario no encontrado.")
MSG_USER_DELETED == S("Usuario eliminado correctamente.")

add_user(ws, name, role, t) ==
    IF find(ws, name) # 0 THEN Result(ws, FALSE, MSG_USER_EXISTS)
    ELSE Result(append_row(ws, <<name, role, Timestamp(t)>>), TRUE, MSG_USER_CREATED)

DeleteUnprotected(ws, name) ==
    IF find(ws, name) = 0 THEN Result(ws, FALSE, MSG_USER_NOT_FOUND)
    ELSE Result(delete_rows(ws, find(ws, name)), TRUE, MSG_USER_DELETED)

delete_user(ws, name) ==
    IF name = S("Admin") THEN Result(ws, FALSE, MSG_ADMIN_PROTECTED)
    ELSE IF find(ws, name) = 0 THEN Result(ws, FALSE, MSG_USER_NOT_FOUND)
    ELSE Result(delete_rows(ws, find(ws, name)), TRUE, MSG_USER_DELETED)

\* The names handed to add_user and delete_user: the Admin identity, a plain
\* name, a role name and a column header.
UserNames == {S("Admin"), S("B"), S("RESPONSABLE"), S("USUARIO")}

Roles == {S("CAPTURISTA"), S("RESPONSABLE")}

AddUser ==
    \E name \in UserNames, role \in Roles :
        LET res == add_user(users, name, role, now)
        IN  /\ Len(res.ws) <= 1 + MaxUsers
            /\ users' = res.ws
            /\ call' = [op |-> "add_user", name |-> name, role |-> role,
                        ok |-> res.ok, msg |-> res.msg]
            /\ UNCHANGED <<pickings, detail, now, retry, screen, procs>>

DeleteUser ==
    \E name \in UserNames :
        LET res == delete_user(users, name)
        IN  /\ users' = res.ws
            /\ call' = [op |-> "delete_user", name |-> name,
                        ok |-> res.ok, msg |-> res.msg]
            /\ UNCHANGED <<pickings, detail, now, retry, screen, procs>>

InitUsers == InitScan

NextUsers == AddUser \/ DeleteUser \/ Tick

SpecUsers == InitUsers /\ [][NextUsers]_vars

\* ------------------------------------------------------------ claims: users
IsDeleteUser(c) == c.op = "delete_user"

\* the users table holds the Admin record
HasAdmin(ws) == \E r \in 1..Len(ws) : ws[r][COL_USUARIO] = S("Admin")

\* C7: Delete user("Admin") fails with Protected whatever the users table
\* holds, and leaves the table as it was.
C7_AdminDeleteProtected ==
    [][(IsDeleteUser(call') /\ call'.name = S("Admin")) =>
          /\ ~call'.ok
          /\ call'.msg = MSG_ADMIN_PROTECTED
          /\ users' = users]_vars

\* C7 witness: Delete user("Admin") was refused on a table that holds the
\* Admin record and two more users.
C7_Witness ==
    /\ IsDeleteUser(call) /\ call.name = S("Admin") /\ ~call.ok
    /\ HasAdmin(users) /\ Len(users) = 4

\* C8: once the users table holds the Admin record, no Add user or Delete
\* user call, whatever name it is given, removes it.
C8_AdminRecordStays ==
    [][HasAdmin(users) => HasAdmin(users')]_vars

\* ------------------------------------------------------------ claims: not found
\* C11: Update status, Reassign and Increment document count called with a
\* folio that is the key of no row of the registry fail with NotFound and
\* leave the registry as it was.
C11_NotFoundUnchanged ==
    [][((IsUpdateStatus(call') \/ IsReassign(call') \/ IsIncrement(call'))
            /\ RowsOfFolio(pickings, call'.folio) = {}) =>
          /\ ~call'.ok
          /\ call'.msg = (IF IsIncrement(call') THEN MSG_PARENT_NOT_FOUND
                          ELSE MSG_FOLIO_NOT_FOUND)
          /\ pickings' = pickings]_vars

\* ------------------------------------------------------------ retry wrapper
max_retries == 3

\* the outcomes of one invocation of the wrapped call: a result, or an
\* exception whose str(e) is the text
RetryResults == {S("sheet"), S("records")}

RetryErrors ==
    { <<"APIError: [", "429", "]: RESOURCE_EXHAUSTED">>,
      <<"Quota exceeded", " for quota metric 'Read requests'">>,
      <<"APIError: [", "500", "]: Internal error">>,
      S("SpreadsheetNotFound") }

\* the calls the code wraps: client.open, sh.worksheet, sh.add_worksheet and
\* worksheet.get_all_records
RetryFuncs == {"open", "worksheet", "add_worksheet", "get_all_records"}

\* "429" in str(e) or "Quota exceeded" in str(e)
IsThrottling(e) == Contains(e, S("429")) \/ Contains(e, S("Quota exceeded"))

RetryOnAnyError(e, attempt) == attempt < max_retries - 1

\* the except branch goes round the loop again instead of raising
ShouldRetry(e, attempt) == IsThrottling(e) /\ attempt < max_retries - 1

sleep_time(attempt) == (2 ^ attempt) + 1

\* with_retry(func) is entered: the first pass of the loop is about to run
RetryStart ==
    /\ retry.status \in {"idle", "returned", "raised"}
    /\ \E func \in RetryFuncs :
          retry' = [status |-> "calling", func |-> func, attempt |-> 0,
                    outcomes |-> <<>>, waits |-> <<>>]
    /\ call' = NoCall
    /\ UNCHANGED <<pickings, detail, users, now, screen, procs>>

\* one pass of the loop body up to the sleep: func is invoked and either
\* returns, or raises and the except branch decides between retry and raise
RetryInvoke ==
    /\ retry.status = "calling"
    /\ \/ \E v \in RetryResults :
             retry' = [retry EXCEPT !.status = "returned",
                                    !.outcomes = Append(@, [ok |-> TRUE, value |-> v])]
                        @@ [result |-> v]
       \/ \E e \in RetryErrors :
             LET seen == Append(retry.outcomes, [ok |-> FALSE, value |-> e])
             IN  IF ShouldRetry(e, retry.attempt)
                 THEN retry' = [retry EXCEPT !.status = "sleeping", !.outcomes = seen]
                 ELSE retry' = [retry EXCEPT !.status = "raised", !.outcomes = seen]
                                  @@ [error |-> e]
    /\ call' = NoCall
    /\ UNCHANGED <<pickings, detail, users, now, screen, procs>>

\* time.sleep(sleep_time) and continue
RetrySleep ==
    /\ retry.status = "sleeping"
    /\ retry' = [retry EXCEPT !.status = "calling",
                              !.waits = Append(@, sleep_time(retry.attempt)),
                              !.attempt = @ + 1]
    /\ call' = NoCall
    /\ UNCHANGED <<pickings, detail, users, now, screen, procs>>

InitRetry == InitScan

NextRetry == RetryStart \/ RetryInvoke \/ RetrySleep

\* the interpreter keeps running the loop: a pending invocation or sleep
\* is eventually carried out
SpecRetry ==
    InitRetry /\ [][NextRetry]_vars /\ WF_vars(RetryInvoke) /\ WF_vars(RetrySleep)

\* ------------------------------------------------------------ claims: retry
RetryRunning == retry.status \in {"calling", "sleeping"}

RetryDone == retry.status \in {"returned", "raised"}

\* the last invocation made, when there is one
LastOutcome == retry.outcomes[Len(retry.outcomes)]

ThrottledSoFar(n) ==
    \A i \in 1..n : ~retry.outcomes[i].ok /\ IsThrottling(retry.outcomes[i].value)

\* what C12 says of one state of an invocation of with_retry
RetryContract ==
    retry.status # "idle" =>
        LET n == Len(retry.outcomes)
        IN  /\ n <= 3
            /\ ThrottledSoFar(n - 1)
            /\ retry.status = "calling" => ThrottledSoFar(n) /\ n < 3
            /\ retry.status = "sleeping" => ThrottledSoFar(n) /\ n < 3
            /\ (n > 0 /\ LastOutcome.ok) =>
                  retry.status = "returned" /\ retry.result = LastOutcome.value
            /\ (n > 0 /\ ~LastOutcome.ok /\ ~IsThrottling(LastOutcome.value)) =>
                  retry.status = "raised" /\ retry.error = LastOutcome.value
            /\ (n = 3 /\ ~LastOutcome.ok) =>
                  retry.status = "raised" /\ retry.error = LastOutcome.value
            /\ retry.status = "returned" => n > 0 /\ LastOutcome.ok
            /\ retry.status = "raised" => n > 0 /\ ~LastOutcome.ok

\* C12: with_retry terminates and invokes the wrapped call at most 3 times;
\* it invokes it again only after a throttling error; a non-throttling error
\* is raised after that invocation, a throttling error on the third
\* invocation is raised, and the result of a successful invocation is
\* returned.
C12_RetryBounded == [](RetryContract) /\ (RetryRunning ~> RetryDone)

\* C12 witness: the third invocation succeeded after two throttling errors.
C12_Witness ==
    /\ retry.status = "returned"
    /\ Len(retry.outcomes) = 3
    /\ retry.waits = <<2, 3>>

\* C13: when the wrapped call keeps failing with a throttling error, the
\* waits made before giving up are 2s, 3s and 5s, in that order.
C13_BackoffWaits ==
    (/\ retry.status = "raised"
     /\ Len(retry.outcomes) = max_retries
     /\ ThrottledSoFar(max_retries)) => retry.waits = <<2, 3, 5>>

\* ------------------------------------------------------------ ledger updates
MSG_QR_NOT_FOUND == S("QR no encontrado en el sistema. Fue registrado al inicio?")
MSG_DETAIL_STRUCTURE == S("Error en estructura de hoja de detalles.")
MSG_ITEM_UPDATED == S("Estatus actualizado a ")
MSG_QR_NOT_FOUND_DELETE == S("QR no encontrado para eliminar.")
MSG_QR_DELETED == S("Registro eliminado correctamente.")

\* worksheet.update_cell(r, c, value): the value is entered as a user would
\* type it, so a run of digits is stored as a number
update_cell(ws, r, c, value) == [ws EXCEPT ![r][c] = NumericisedStr(value)]

update_qr_status(ws, qr_data, new_status) ==
    LET row_idx == find(ws, qr_data)
        headers == row_values(ws, 1)
        status_col == IndexOf(headers, "ESTATUS_ITEM")
        date_col == IndexOf(headers, "FECHA_ESCANEO")
    IN  IF row_idx = 0 THEN Result(ws, FALSE, MSG_QR_NOT_FOUND)
        ELSE IF status_col = 0 \/ date_col = 0
             THEN Result(ws, FALSE, MSG_DETAIL_STRUCTURE)
        ELSE Result(update_cell(ws, row_idx, status_col, new_status),
                    TRUE, MSG_ITEM_UPDATED \o new_status)

delete_qr_scan(ws, qr_data) ==
    LET row_idx == find(ws, qr_data)
    IN  IF row_idx = 0 THEN Result(ws, FALSE, MSG_QR_NOT_FOUND_DELETE)
        ELSE Result(delete_rows(ws, row_idx), TRUE, MSG_QR_DELETED)

\* the item statuses a record is moved to
ItemStatuses == {S("DEVUELTO"), S("SURTIDO")}

UpdateQrStatus ==
    \E qr_data \in ScanStrings, new_status \in ItemStatuses :
        LET res == update_qr_status(detail, qr_data, new_status)
        IN  /\ detail' = res.ws
            /\ call' = [op |-> "update_qr_status", qr_data |-> qr_data,
                        new_status |-> new_status, ok |-> res.ok, msg |-> res.msg]
            /\ UNCHANGED <<pickings, users, now, retry, screen, procs>>

DeleteQrScan ==
    \E qr_data \in ScanStrings :
        LET res == delete_qr_scan(detail, qr_data)
        IN  /\ detail' = res.ws
            /\ call' = [op |-> "delete_qr_scan", qr_data |-> qr_data,
                        ok |-> res.ok, msg |-> res.msg]
            /\ UNCHANGED <<pickings, users, now, retry, screen, procs>>

InitLedger == InitScan

NextLedger == RegisterQrScan \/ UpdateQrStatus \/ DeleteQrScan \/ Tick

SpecLedger == InitLedger /\ [][NextLedger]_vars

\* ------------------------------------------------------------ claims: resolution
\* a folio can be determined for the call: one is forced, or qr_data parses
\* to a non-empty one
FolioDeterminable(c) ==
    c.forced_folio # <<>> \/ parse_qr_code(c.qr_data).folio # <<>>

\* C17: Register scan with a determinable folio and a qr_data that is the key
\* of no record succeeds and appends exactly one record with that qr_data,
\* also when the same string stands in another column of some record: it
\* fails with DuplicateScan only when a record with that key exists.
C17_DuplicateOnlyOnKey ==
    [][(/\ IsRegister(call')
        /\ RecordsOfQr(detail, call'.qr_data) = {}
        /\ FolioDeterminable(call')) =>
          /\ call'.ok
          /\ Len(detail') = Len(detail) + 1
          /\ SubSeq(detail', 1, Len(detail)) = detail
          /\ detail'[Len(detail')][COL_QR_DATA] = call'.qr_data]_vars

\* the folio C18 prescribes for a call
ResolvedFolio(c) ==
    IF c.forced_folio # <<>> THEN c.forced_folio
    ELSE IF \E i \in 1..Len(c.qr_data) : c.qr_data[i] = "|"
         THEN Strip(SubSeq(c.qr_data, 1,
                  (CHOOSE i \in 1..Len(c.qr_data) :
                      c.qr_data[i] = "|" /\ \A j \in 1..(i - 1) : c.qr_data[j] # "|") - 1))
    ELSE Strip(c.qr_data)

\* C18: the record Register scan appends has as parent folio the forced
\* folio when one is given, else the trimmed first pipe-delimited segment of
\* qr_data, else the whole trimmed qr_data; when that folio is empty the
\* call fails, with InvalidFormat unless it was already refused as a
\* duplicate of an existing key, and appends nothing.
C18_FolioResolution ==
    [][IsRegister(call') =>
          /\ call'.ok =>
                /\ Len(detail') = Len(detail) + 1
                /\ detail'[Len(detail')][COL_QR_DATA] = call'.qr_data
                /\ detail'[Len(detail')][COL_FOLIO_PADRE] = ResolvedFolio(call')
                /\ ResolvedFolio(call') # <<>>
          /\ ResolvedFolio(call') = <<>> =>
                /\ ~call'.ok
                /\ detail' = detail
                /\ RecordsOfQr(detail, call'.qr_data) = {} =>
                      call'.msg = MSG_QR_INVALID]_vars

\* C18 witness: a forced folio overrode a code whose own first segment is
\* empty, and the record was appended under the forced folio.
C18_Witness ==
    /\ IsRegister(call) /\ call.ok
    /\ call.forced_folio = S("F") /\ call.qr_data = <<"|", "x">>
    /\ detail[Len(detail)][COL_FOLIO_PADRE] = S("F")

\* ------------------------------------------------------------ claims: item status
COL_ESTATUS_ITEM == 4

IsUpdateQr(c) == c.op = "update_qr_status"

\* C19: Update item status fails with NotFound and changes nothing when no
\* record has key qr_data; otherwise it overwrites item_status of the record
\* with that key and nothing else: its other fields and every other record
\* stay as they were.
C19_ItemStatusFrame ==
    [][IsUpdateQr(call') =>
          IF RecordsOfQr(detail, call'.qr_data) = {}
          THEN /\ ~call'.ok
               /\ call'.msg = MSG_QR_NOT_FOUND
               /\ detail' = detail
          ELSE \A r \in RecordsOfQr(detail, call'.qr_data) :
                  /\ call'.ok
                  /\ Len(detail') = Len(detail)
                  /\ detail'[r][COL_ESTATUS_ITEM] = call'.new_status
                  /\ SameExcept(detail, detail', r, {COL_ESTATUS_ITEM})
                  /\ \A q \in 1..Len(detail) : q # r => detail'[q] = detail[q]]_vars

\* ------------------------------------------------------------ store faults
\* A fault makes the at-th remote call of an operation raise an exception
\* whose text is error; at = 0 is a run without fault.
FaultPoints == 0..6

StoreErrors ==
    { <<"APIError: [", "429", "]: RESOURCE_EXHAUSTED">>,
      <<"APIError: [", "500", "]: Internal error">> }

Faults == {[at |-> k, error |-> e] : k \in FaultPoints, e \in StoreErrors}

\* the sheet an operation works on
OnPickings(op) ==
    op \in {"update_status", "reassign_capturista", "increment_folio_count",
            "sync_excel_data"}

OnDetail(op) == op \in {"register_qr_scan", "update_qr_status", "delete_qr_scan"}

SheetOf(op) == IF OnPickings(op) THEN pickings ELSE IF OnDetail(op) THEN detail ELSE users

\* how many remote calls the run that ends in result res has made: the
\* lookup, the header and cell reads, and the one write
RemoteCalls(op, res) ==
    CASE op \in {"update_status", "reassign_capturista"} ->
            (IF res.msg = MSG_FOLIO_NOT_FOUND THEN 1
             ELSE IF res.msg = MSG_HEADERS_MISMATCH THEN 2 ELSE 3)
      [] op = "increment_folio_count" ->
            (IF res.msg = MSG_PARENT_NOT_FOUND THEN 1
             ELSE IF res.msg = MSG_COLUMNS_NOT_FOUND THEN 2
             ELSE IF res.msg = MSG_ALREADY_SCANNED THEN 4 ELSE 6)
      [] op = "sync_excel_data" ->
            (IF ~res.ok THEN 0 ELSE IF res.msg = MSG_NO_NEW_RECORDS THEN 1 ELSE 2)
      [] op = "register_qr_scan" -> (IF res.ok THEN 2 ELSE 1)
      [] op = "update_qr_status" ->
            (IF res.msg = MSG_QR_NOT_FOUND THEN 1
             ELSE IF res.msg = MSG_DETAIL_STRUCTURE THEN 2 ELSE 3)
      [] op = "delete_qr_scan" -> (IF res.ok THEN 2 ELSE 1)
      [] op = "add_user" -> (IF res.ok THEN 2 ELSE 1)
      [] op = "delete_user" ->
            (IF res.msg = MSG_ADMIN_PROTECTED THEN 0 ELSE IF res.ok THEN 2 ELSE 1)

\* the text each operation puts before str(e) in its except branch
ErrorPrefix(op) ==
    CASE op \in {"update_status", "reassign_capturista"} -> S("Update failed: ")
      [] op = "increment_folio_count" -> S("Error en incremento: ")
      [] op = "sync_excel_data" -> S("Error processing file: ")
      [] op = "register_qr_scan" -> S("Error registrando QR: ")
      [] op = "update_qr_status" -> S("Error actualizando QR: ")
      [] op = "delete_qr_scan" -> S("Error eliminando registro: ")
      [] op = "add_user" -> S("Error creando usuario: ")
      [] op = "delete_user" -> S("Error eliminando usuario: ")

\* the body of the try block: the remote call the fault sits on raises, and
\* nothing after it runs (the write is the last remote call of every body)
TryBody(res, ws, n, fault) ==
    IF fault.at \in 1..n
    THEN [raised |-> TRUE, error |-> fault.error, ok |-> FALSE, msg |-> <<>>, ws |-> ws]
    ELSE [raised |-> FALSE, error |-> <<>>, ok |-> res.ok, msg |-> res.msg, ws |-> res.ws]

ExceptThrottlingOnly(body, prefix) ==
    IF body.raised /\ IsThrottling(body.error)
    THEN [body EXCEPT !.raised = FALSE, !.error = <<>>, !.msg = prefix \o body.error]
    ELSE body

\* except Exception as e: return False, f"<prefix>{e}"
except_Exception(body, prefix) ==
    IF body.raised
    THEN [body EXCEPT !.raised = FALSE, !.error = <<>>, !.msg = prefix \o body.error]
    ELSE body

\* what the caller of operation op gets when the run that would end in res
\* on sheet ws meets the fault
Guarded(op, res, ws, fault) ==
    except_Exception(TryBody(res, ws, RemoteCalls(op, res), fault), ErrorPrefix(op))

\* the call record with its fault and outcome
Answered(c, fault, out) ==
    c @@ [fault |-> fault, raised |-> out.raised, ok |-> out.ok, msg |-> out.msg]

\* arguments of the calls made against the faulty store
FaultFolios == {S("A"), S("B")}

FaultFrames == {Frame(<<S("A")>>, <<>>)}

FaultUsers == {S("Admin"), S("B")}

FaultyUpdateStatus ==
    \E folio \in FaultFolios, fault \in Faults :
        LET c == [op |-> "update_status", folio |-> folio,
                  new_status |-> S("LIBERADO"), user_name |-> S("Admin")]
            out == Guarded(c.op, update_status(pickings, folio, c.new_status, c.user_name, now),
                           pickings, fault)
        IN  /\ call = NoCall
            /\ pickings' = out.ws
            /\ call' = Answered(c, fault, out)
            /\ UNCHANGED <<detail, users, now, retry, screen, procs>>

FaultyReassign ==
    \E folio \in FaultFolios, fault \in Faults :
        LET c == [op |-> "reassign_capturista", folio |-> folio,
                  new_capturista |-> S("C"), user_name |-> S("Admin")]
            out == Guarded(c.op, reassign_capturista(pickings, folio, c.new_capturista, c.user_name, now),
                           pickings, fault)
        IN  /\ call = NoCall
            /\ pickings' = out.ws
            /\ call' = Answered(c, fault, out)
            /\ UNCHANGED <<detail, users, now, retry, screen, procs>>

FaultyIncrement ==
    \E folio \in FaultFolios, fault \in Faults :
        LET c == [op |-> "increment_folio_count", folio |-> folio,
                  scanned_qr |-> S("1")]
            out == Guarded(c.op, increment_folio_count(pickings, folio, c.scanned_qr),
                           pickings, fault)
        IN  /\ call = NoCall
            /\ pickings' = out.ws
            /\ call' = Answered(c, fault, out)
            /\ UNCHANGED <<detail, users, now, retry, screen, procs>>

FaultySync ==
    \E new_df \in FaultFrames, fault \in Faults :
        LET c == [op |-> "sync_excel_data", new_df |-> new_df]
            out == Guarded(c.op, sync_excel_data(pickings, new_df, now),
                           pickings, fault)
        IN  /\ call = NoCall
            /\ pickings' = out.ws
            /\ call' = Answered(c, fault, out)
            /\ UNCHANGED <<detail, users, now, retry, screen, procs>>

FaultyRegister ==
    \E qr_data \in {<<"F", "|", "x">>, S(" ")}, fault \in Faults :
        LET c == [op |-> "register_qr_scan", qr_data |-> qr_data,
                  forced_folio |-> <<>>, capturista |-> S("Admin")]
            out == Guarded(c.op, register_qr_scan(detail, qr_data, c.capturista, S("SURTIDO"),
                                        c.forced_folio, now),
                           detail, fault)
        IN  /\ call = NoCall
            /\ detail' = out.ws
            /\ call' = Answered(c, fault, out)
            /\ UNCHANGED <<pickings, users, now, retry, screen, procs>>

FaultyUpdateQr ==
    \E fault \in Faults :
        LET c == [op |-> "update_qr_status", qr_data |-> <<"F", "|", "x">>,
                  new_status |-> S("DEVUELTO")]
            out == Guarded(c.op, update_qr_status(detail, c.qr_data, c.new_status),
                           detail, fault)
        IN  /\ call = NoCall
            /\ detail' = out.ws
            /\ call' = Answered(c, fault, out)
            /\ UNCHANGED <<pickings, users, now, retry, screen, procs>>

FaultyDeleteQr ==
    \E fault \in Faults :
        LET c == [op |-> "delete_qr_scan", qr_data |-> <<"F", "|", "x">>]
            out == Guarded(c.op, delete_qr_scan(detail, c.qr_data),
                           detail, fault)
        IN  /\ call = NoCall
            /\ detail' = out.ws
            /\ call' = Answered(c, fault, out)
            /\ UNCHANGED <<pickings, users, now, retry, screen, procs>>

FaultyAddUser ==
    \E name \in FaultUsers, fault \in Faults :
        LET c == [op |-> "add_user", name |-> name, role |-> S("CAPTURISTA")]
            out == Guarded(c.op, add_user(users, name, c.role, now),
                           users, fault)
        IN  /\ call = NoCall
            /\ users' = out.ws
            /\ call' = Answered(c, fault, out)
            /\ UNCHANGED <<pickings, detail, now, retry, screen, procs>>

FaultyDeleteUser ==
    \E name \in FaultUsers, fault \in Faults :
        LET c == [op |-> "delete_user", name |-> name]
            out == Guarded(c.op, delete_user(users, name),
                           users, fault)
        IN  /\ call = NoCall
            /\ users' = out.ws
            /\ call' = Answered(c, fault, out)
            /\ UNCHANGED <<pickings, detail, now, retry, screen, procs>>

\* The store contents the calls are made on: each sheet as created, or after
\* one successful import, scan or user creation.
FaultPickings ==
    {EmptyPickings, sync_excel_data(EmptyPickings, Frame(<<S("A")>>, <<>>), 0).ws}

FaultDetail ==
    {EmptyDetail,
     register_qr_scan(EmptyDetail, <<"F", "|", "x">>, S("Admin"), S("SURTIDO"), <<>>, 0).ws}

FaultRegistry ==
    {InitialUsers(0), add_user(InitialUsers(0), S("B"), S("CAPTURISTA"), 0).ws}

\* one call is made on each store content
InitFaults ==
    /\ pickings \in FaultPickings
    /\ detail \in FaultDetail
    /\ users \in FaultRegistry
    /\ now = 0
    /\ call = NoCall
    /\ retry = NoRetry
    /\ screen = NoScreen
    /\ procs = NoProcs

NextFaults ==
    \/ FaultyUpdateStatus \/ FaultyReassign \/ FaultyIncrement \/ FaultySync
    \/ FaultyRegister \/ FaultyUpdateQr \/ FaultyDeleteQr
    \/ FaultyAddUser \/ FaultyDeleteUser

SpecFaults == InitFaults /\ [][NextFaults]_vars

\* ------------------------------------------------------------ claims: faults
IsStoreCall(c) == c.op # "none" /\ "fault" \in DOMAIN c

\* the operation named by the call record c, run on the current sheets with
\* a store that answers every call
Clean(c) ==
    CASE c.op = "update_status" ->
            update_status(pickings, c.folio, c.new_status, c.user_name, now)
      [] c.op = "reassign_capturista" ->
            reassign_capturista(pickings, c.folio, c.new_capturista, c.user_name, now)
      [] c.op = "increment_folio_count" ->
            increment_folio_count(pickings, c.folio, c.scanned_qr)
      [] c.op = "sync_excel_data" ->
            LET r == sync_excel_data(pickings, c.new_df, now)
            IN  Result(r.ws, r.ok, r.msg)
      [] c.op = "register_qr_scan" ->
            register_qr_scan(detail, c.qr_data, c.capturista, S("SURTIDO"),
                             c.forced_folio, now)
      [] c.op = "update_qr_status" -> update_qr_status(detail, c.qr_data, c.new_status)
      [] c.op = "delete_qr_scan" -> delete_qr_scan(detail, c.qr_data)
      [] c.op = "add_user" -> add_user(users, c.name, c.role, now)
      [] c.op = "delete_user" -> delete_user(users, c.name)

\* the fault of call c sits on a remote call the operation makes
FaultMet(c) == c.fault.at \in 1..RemoteCalls(c.op, Clean(c))

\* C14: every mutating operation goes through the retry wrapper: when one of
\* its remote calls fails once with a throttling error and the operation
\* would succeed on a store that answers, it still completes successfully,
\* with the effect and the message of the run without fault.
C14_MutationsRetried ==
    [][(/\ IsStoreCall(call')
        /\ FaultMet(call')
        /\ IsThrottling(call'.fault.error)
        /\ Clean(call').ok) =>
          /\ call'.ok
          /\ call'.msg = Clean(call').msg
          /\ IF OnPickings(call'.op) THEN pickings' = Clean(call').ws
             ELSE IF OnDetail(call'.op) THEN detail' = Clean(call').ws
             ELSE users' = Clean(call').ws]_vars

\* C15: no operation raises to its caller: whatever the store answers (not
\* found, duplicate, invalid format, any remote error) the caller gets a
\* (flag, message) pair, and the flag is false whenever the run failed.
C15_NeverRaises ==
    [][IsStoreCall(call') =>
          /\ ~call'.raised
          /\ call'.ok \in BOOLEAN
          /\ call'.msg # <<>>
          /\ FaultMet(call') =>
                /\ ~call'.ok
                /\ call'.msg = ErrorPrefix(call'.op) \o call'.fault.error
          /\ ~Clean(call').ok => ~call'.ok]_vars

\* C15 witness: the write of Increment document count, its sixth remote
\* call, met a non-throttling error and the caller got a failure pair.
C15_Witness ==
    /\ IsStoreCall(call) /\ call.op = "increment_folio_count"
    /\ call.fault.at = 6 /\ ~IsThrottling(call.fault.error)
    /\ ~call.raised /\ ~call.ok
    /\ call.msg = S("Error en incremento: ") \o call.fault.error

\* ------------------------------------------------------------ screens
STATUS_OPTIONS_CAPTURISTA ==
    <<S("IMPRESOS"), S("EN SURTIDO"), S("EN CAPTURA"), S("CAPTURADOS")>>

\* the statuses the dropdown offers
CapturistaChoices ==
    {STATUS_OPTIONS_CAPTURISTA[i] : i \in DOMAIN STATUS_OPTIONS_CAPTURISTA}

TOAST_STATUS_UPDATED == S("Estatus actualizado: ")

\* one message on the screen: the widget that shows it and its text
Shown(widget, text) == [widget |-> widget, text |-> text]

\* capturista_view: the status dropdown of a listed folio is moved to another
\* status; the result of update_status is dropped and the toast is shown
ScreenStatusChange ==
    \E r \in 2..Len(pickings), new_status \in CapturistaChoices,
       fault \in Faults :
        LET c == [op |-> "update_status", folio |-> pickings[r][COL_FOLIO],
                  new_status |-> new_status, user_name |-> S("B"),
                  screen |-> "capturista_view"]
            out == Guarded(c.op, update_status(pickings, c.folio, new_status,
                                               c.user_name, now),
                           pickings, fault)
        IN  /\ new_status # pickings[r][COL_ESTATUS]
            /\ pickings' = out.ws
            /\ call' = Answered(c, fault, out)
            /\ screen' = <<Shown("toast", TOAST_STATUS_UPDATED \o new_status)>>
            /\ UNCHANGED <<detail, users, now, retry, procs>>

\* show_folio_detail: the delete button of a listed record is pressed; the
\* result of delete_qr_scan is dropped and the script reruns
ScreenDeleteScan ==
    \E r \in 2..Len(detail), fault \in Faults :
        LET c == [op |-> "delete_qr_scan", qr_data |-> detail[r][COL_QR_DATA],
                  screen |-> "show_folio_detail"]
            out == Guarded(c.op, delete_qr_scan(detail, c.qr_data), detail, fault)
        IN  /\ detail' = out.ws
            /\ call' = Answered(c, fault, out)
            /\ screen' = <<>>
            /\ UNCHANGED <<pickings, users, now, retry, procs>>

\* show_folio_detail: a code is scanned into the folio's view; the failure
\* message of register_qr_scan is shown with st.error, a success as a toast
ScreenRegisterScan ==
    \E qr_data \in {<<"F", "|", "x">>, S("G")}, fault \in Faults :
        LET c == [op |-> "register_qr_scan", qr_data |-> qr_data,
                  forced_folio |-> S("A"), capturista |-> S("B"),
                  screen |-> "show_folio_detail"]
            out == Guarded(c.op, register_qr_scan(detail, qr_data, c.capturista,
                                                  S("SURTIDO"), c.forced_folio, now),
                           detail, fault)
        IN  /\ RecordsOfQr(detail, qr_data) = {}
            /\ Len(out.ws) <= 1 + MaxDetail
            /\ detail' = out.ws
            /\ call' = Answered(c, fault, out)
            /\ screen' = IF out.ok THEN <<Shown("toast", S("Agregado: ") \o qr_data)>>
                         ELSE <<Shown("error", out.msg)>>
            /\ UNCHANGED <<pickings, users, now, retry, procs>>

InitScreen == InitFaults

NextScreen == ScreenStatusChange \/ ScreenDeleteScan \/ ScreenRegisterScan

SpecScreen == InitScreen /\ [][NextScreen]_vars

\* ------------------------------------------------------------ claims: screens
IsScreenCall(c) == IsStoreCall(c) /\ "screen" \in DOMAIN c

\* the message tells the user the operation went through
TellsSuccess(m) == m.widget \in {"success", "toast"}

\* C16: whenever a status update or a scan deletion triggered from a screen
\* returns failure, the screen shows a failure message and no success
\* message for it.
C16_NoSilentFailure ==
    [][(/\ IsScreenCall(call')
        /\ call'.op \in {"update_status", "delete_qr_scan"}
        /\ ~call'.ok) =>
          /\ \E i \in 1..Len(screen') : screen'[i].widget = "error"
          /\ \A i \in 1..Len(screen') : ~TellsSuccess(screen'[i])]_vars

\* ------------------------------------------------------------ concurrent scans
MaxSessions == 2   \* browser sessions scanning at the same time

Sessions == 1..MaxSessions

\* the codes the sessions scan
RaceCodes == {<<"F", "|", "x">>, S("G"), <<"|", "x">>}

AppendUnlessPresent(ws, cell_row, qr_data, capturista, status, forced_folio, t) ==
    register_qr_scan(ws, qr_data, capturista, status, forced_folio, t)

\* register_qr_scan after its lookup returned cell_row: the refusal of a
\* found code, else the folio resolution and the append
register_after_lookup(ws, cell_row, qr_data, capturista, status, forced_folio, t) ==
    LET parsed == IF forced_folio # <<>>
                  THEN [folio |-> forced_folio, extra |-> qr_data]
                  ELSE parse_qr_code(qr_data)
    IN  IF cell_row # 0 THEN Result(ws, FALSE, MSG_QR_DUPLICATE(cell_row))
        ELSE IF parsed.folio = <<>> THEN Result(ws, FALSE, MSG_QR_INVALID)
        ELSE Result(append_row(ws, <<qr_data, parsed.folio, capturista, status,
                                     Timestamp(t), parsed.extra>>),
                    TRUE, MSG_QR_REGISTERED \o parsed.folio)

\* session p runs detail_ws.find(qr_data): one request to the store
SessionLookup(p) ==
    /\ procs[p].pc = "start"
    /\ procs' = [procs EXCEPT ![p].pc = "looked_up",
                              ![p].cell_row = find(detail, procs[p].qr_data)]
    /\ call' = NoCall
    /\ UNCHANGED <<pickings, detail, users, now, retry, screen>>

\* session p runs the rest of register_qr_scan with the cell it was given:
\* the append is a second request to the store
SessionAppend(p) ==
    /\ procs[p].pc = "looked_up"
    /\ LET res == register_after_lookup(detail, procs[p].cell_row, procs[p].qr_data,
                                        S("Admin"), S("SURTIDO"), <<>>, now)
       IN  /\ detail' = res.ws
           /\ procs' = [procs EXCEPT ![p].pc = "done", ![p].ok = res.ok,
                                     ![p].msg = res.msg]
           /\ call' = [op |-> "register_qr_scan", qr_data |-> procs[p].qr_data,
                       forced_folio |-> <<>>, capturista |-> S("Admin"),
                       ok |-> res.ok, msg |-> res.msg]
    /\ UNCHANGED <<pickings, users, now, retry, screen>>

InitRace ==
    /\ pickings = EmptyPickings
    /\ detail = EmptyDetail
    /\ users = InitialUsers(0)
    /\ now = 0
    /\ call = NoCall
    /\ retry = NoRetry
    /\ screen = NoScreen
    /\ procs \in [Sessions -> {[pc |-> "start", qr_data |-> q, cell_row |-> 0,
                                ok |-> FALSE, msg |-> <<>>] : q \in RaceCodes}]

NextRace == (\E p \in Sessions : SessionLookup(p) \/ SessionAppend(p)) \/ Tick

SpecRace == InitRace /\ [][NextRace]_vars

\* ------------------------------------------------------------ claims: race
\* sessions p and q scanned the same code, both lookups found nothing and
\* both calls have returned
BothPassedLookup(p, q) ==
    /\ p # q
    /\ procs[p].pc = "done" /\ procs[q].pc = "done"
    /\ procs[p].qr_data = procs[q].qr_data
    /\ procs[p].cell_row = 0 /\ procs[q].cell_row = 0
    /\ parse_qr_code(procs[p].qr_data).folio # <<>>

\* C20: when two concurrent Register scan calls for the same qr_data both
\* run their lookup before either appends, both appends happen: both calls
\* report success and the ledger holds two records with that qr_data.
C20_RaceDuplicates ==
    \A p, q \in Sessions :
        BothPassedLookup(p, q) =>
            /\ procs[p].ok /\ procs[q].ok
            /\ Cardinality(RecordsOfQr(detail, procs[p].qr_data)) >= 2

\* C20 witness: that interleaving is reached.
C20_Witness ==
    \E p, q \in Sessions :
        /\ BothPassedLookup(p, q)
        /\ procs[p].ok /\ procs[q].ok
        /\ Cardinality(RecordsOfQr(detail, procs[p].qr_data)) = 2

\* ------------------------------------------------------------ concurrent reception
\* the codes the sessions scan at the reception, one each and all distinct
ReceptionCodes == {<<"A", "|", "x">>, <<"A", "|", "y">>, <<"A", "|", "z">>}

\* a session about to call increment_folio_count(worksheet, folio, scanned_qr)
ReceptionStart(folio, scanned_qr) ==
    [pc |-> "find", folio |-> folio, scanned_qr |-> scanned_qr, row_idx |-> 0,
     docs_col |-> 0, count_col |-> 0, status_col |-> 0, current_docs |-> <<>>,
     current_count |-> 0, current_status |-> <<>>, ok |-> FALSE, msg |-> <<>>]

\* the session's call returns (ok, msg)
ReceptionReturn(p, ok, msg) ==
    /\ procs' = [procs EXCEPT ![p].pc = "done", ![p].ok = ok, ![p].msg = msg]
    /\ call' = [op |-> "increment_folio_count", folio |-> procs[p].folio,
                scanned_qr |-> procs[p].scanned_qr, ok |-> ok, msg |-> msg]

\* cell = worksheet.find(folio)
ReceptionFind(p) ==
    /\ procs[p].pc = "find"
    /\ LET row_idx == find(pickings, procs[p].folio)
       IN  IF row_idx = 0 THEN ReceptionReturn(p, FALSE, MSG_PARENT_NOT_FOUND)
           ELSE /\ procs' = [procs EXCEPT ![p].pc = "headers", ![p].row_idx = row_idx]
                /\ call' = NoCall
    /\ UNCHANGED <<pickings, detail, users, now, retry, screen>>

\* headers = worksheet.row_values(1) and the three column lookups
ReceptionHeaders(p) ==
    /\ procs[p].pc = "headers"
    /\ LET headers == row_values(pickings, 1)
           docs_col == IndexOf(headers, "FOLIO DOCUMENTOS POR PICKING")
           count_col == IndexOf(headers, "# FOLIOS DOCUMENTOS")
           status_col == IndexOf(headers, "ESTATUS")
       IN  IF docs_col = 0 \/ count_col = 0 \/ status_col = 0
           THEN ReceptionReturn(p, FALSE, MSG_COLUMNS_NOT_FOUND)
           ELSE /\ procs' = [procs EXCEPT ![p].pc = "read_docs",
                                          ![p].docs_col = docs_col,
                                          ![p].count_col = count_col,
                                          ![p].status_col = status_col]
                /\ call' = NoCall
    /\ UNCHANGED <<pickings, detail, users, now, retry, screen>>

\* current_docs = worksheet.cell(row_idx, docs_col).value or ""
ReceptionReadDocs(p) ==
    /\ procs[p].pc = "read_docs"
    /\ procs' = [procs EXCEPT ![p].pc = "read_count",
                    ![p].current_docs =
                        cell_value(pickings, procs[p].row_idx, procs[p].docs_col)]
    /\ call' = NoCall
    /\ UNCHANGED <<pickings, detail, users, now, retry, screen>>

\* current_count = worksheet.cell(row_idx, count_col).value, its safe
\* conversion, and the duplicate check on the list read before
ReceptionReadCount(p) ==
    /\ procs[p].pc = "read_count"
    /\ IF Contains(procs[p].current_docs, procs[p].scanned_qr)
       THEN ReceptionReturn(p, FALSE, MSG_ALREADY_SCANNED)
       ELSE /\ procs' = [procs EXCEPT ![p].pc = "read_status",
                            ![p].current_count =
                                SafeCount(cell_value(pickings, procs[p].row_idx,
                                                     procs[p].count_col))]
            /\ call' = NoCall
    /\ UNCHANGED <<pickings, detail, users, now, retry, screen>>

\* current_status = worksheet.cell(row_idx, status_col).value
ReceptionReadStatus(p) ==
    /\ procs[p].pc = "read_status"
    /\ procs' = [procs EXCEPT ![p].pc = "write",
                    ![p].current_status =
                        cell_value(pickings, procs[p].row_idx, procs[p].status_col)]
    /\ call' = NoCall
    /\ UNCHANGED <<pickings, detail, users, now, retry, screen>>

\* worksheet.batch_update(updates) with the values computed from the reads
ReceptionWrite(p) ==
    /\ procs[p].pc = "write"
    /\ LET s == procs[p]
           new_count == s.current_count + 1
           updates ==
               << <<s.row_idx, s.docs_col, NewDocs(s.current_docs, s.scanned_qr)>>,
                  <<s.row_idx, s.count_col, StrOfInt(new_count)>> >>
               \o (IF NeedsPromotion(s.current_status)
                   THEN << <<s.row_idx, s.status_col, S("IMPRESOS")>> >>
                   ELSE <<>>)
       IN  /\ pickings' = batch_update(pickings, updates)
           /\ ReceptionReturn(p, TRUE, MSG_ADDED \o StrOfInt(new_count))
    /\ UNCHANGED <<detail, users, now, retry, screen>>

InitReception ==
    /\ pickings \in InitRegistries
    /\ detail = EmptyDetail
    /\ users = InitialUsers(0)
    /\ now = 0
    /\ call = NoCall
    /\ retry = NoRetry
    /\ screen = NoScreen
    /\ procs \in {f \in [Sessions -> {ReceptionStart(S("A"), q) : q \in ReceptionCodes}] :
                    \A p, q \in Sessions : p # q => f[p].scanned_qr # f[q].scanned_qr}

NextReception ==
    \E p \in Sessions :
        \/ ReceptionFind(p) \/ ReceptionHeaders(p) \/ ReceptionReadDocs(p)
        \/ ReceptionReadCount(p) \/ ReceptionReadStatus(p) \/ ReceptionWrite(p)

SpecReception == InitReception /\ [][NextReception]_vars

\* ------------------------------------------------------------ claims: reception race
\* C21: in every state reached by sessions running Increment document count
\* concurrently on the same folio with distinct codes, their reads and
\* their write interleaved, the folio's scanned_doc_count equals the number
\* of entries of its scanned_doc_list.
C21_ConcurrentCountConsistency ==
    \A p \in Sessions :
        \A r \in RowsOfFolio(pickings, procs[p].folio) :
            LET entries == NumEntries(pickings[r][COL_DOCS])
            IN  ShowsCount(pickings[r][COL_COUNT], entries)

\* ------------------------------------------------------------ capturista listing
\* the capturista whose listing is rendered
RenderUser == S("B")

\* STATUS_OPTIONS_CAPTURISTA.index(current_status), 0-based, and 0 when the
\* status is not one of the options (ValueError)
idx_status(current_status) ==
    IF \E i \in DOMAIN STATUS_OPTIONS_CAPTURISTA :
            STATUS_OPTIONS_CAPTURISTA[i] = current_status
    THEN (CHOOSE i \in DOMAIN STATUS_OPTIONS_CAPTURISTA :
            STATUS_OPTIONS_CAPTURISTA[i] = current_status) - 1
    ELSE 0

\* the value st.selectbox(..., index=idx_status, key=status_<folio>) returns
\* in a script run: what the user picked in that dropdown, and the option
\* at the given index while the user has not picked anything
selectbox(picked, folio, index) ==
    IF folio \in DOMAIN picked THEN picked[folio]
    ELSE STATUS_OPTIONS_CAPTURISTA[index + 1]

\* my_pickings = df[df["CAPTURISTA"] == user]: the rows listed, in sheet order
my_pickings(ws, user) ==
    SelectSeq([i \in 1..(Len(ws) - 1) |-> i + 1],
              LAMBDA r : ws[r][COL_CAPTURISTA] = user)

\* the dropdown value of the listed row r in this run
new_status_of(ws, picked, r) ==
    selectbox(picked, ws[r][COL_FOLIO], idx_status(ws[r][COL_ESTATUS]))

\* the first listed row whose dropdown value differs from its status, 0 when
\* the loop over my_pickings runs to its end
RECURSIVE FirstChanged(_, _, _)
FirstChanged(ws, picked, rows) ==
    IF rows = <<>> THEN 0
    ELSE IF new_status_of(ws, picked, Head(rows)) # ws[Head(rows)][COL_ESTATUS]
         THEN Head(rows)
         ELSE FirstChanged(ws, picked, Tail(rows))

\* One script run of capturista_view on the list: the loop draws the rows;
\* at the first row whose dropdown value differs from its status it calls
\* update_status, shows the toast and asks for a rerun; a run that reaches
\* the end of the list leaves the screen waiting for the user.
Render ==
    /\ procs.pc = "run"
    /\ LET r == FirstChanged(pickings, procs.picked, my_pickings(pickings, RenderUser))
       IN  IF r = 0
           THEN /\ procs' = [procs EXCEPT !.pc = "idle"]
                /\ call' = NoCall
                /\ screen' = <<>>
                /\ UNCHANGED pickings
           ELSE LET folio == pickings[r][COL_FOLIO]
                    new_status == new_status_of(pickings, procs.picked, r)
                    out == update_status(pickings, folio, new_status, RenderUser, now)
                IN  /\ pickings' = out.ws
                    /\ call' = [op |-> "update_status", folio |-> folio,
                                new_status |-> new_status, user_name |-> RenderUser,
                                screen |-> "capturista_view",
                                ok |-> out.ok, msg |-> out.msg]
                    /\ screen' = <<Shown("toast", TOAST_STATUS_UPDATED \o new_status)>>
                    /\ procs' = [procs EXCEPT !.pc = "run"]
    /\ UNCHANGED <<detail, users, now, retry>>

\* the user moves the dropdown of a listed folio; the widget keeps the value
\* and the script reruns
PickStatus ==
    \E i \in 1..Len(my_pickings(pickings, RenderUser)), new_status \in CapturistaChoices :
        LET folio == pickings[my_pickings(pickings, RenderUser)[i]][COL_FOLIO]
        IN  /\ procs.pc = "idle"
            /\ procs' = [pc |-> "run",
                         picked |-> [f \in DOMAIN procs.picked \cup {folio} |->
                                        IF f = folio THEN new_status
                                        ELSE procs.picked[f]]]
            /\ call' = NoCall
            /\ UNCHANGED <<pickings, detail, users, now, retry, screen>>

\* the statuses the listed folios arrive with: the import default, a status
\* set by the responsable, and one of the capturista's own
RenderStatuses == {<<>>, S("LIBERADO"), S("EN CAPTURA")}

\* registries with the folios A and C, A assigned to the user and C either
\* to the user or to nobody
RenderRegistries ==
    LET imported ==
            {sync_excel_data(EmptyPickings, Frame(<<S("A"), S("C")>>, <<sa, sc>>), 0).ws :
                sa \in RenderStatuses, sc \in RenderStatuses}
        first == {reassign_capturista(ws, S("A"), RenderUser, S("Admin"), 0).ws :
                    ws \in imported}
    IN  first \cup {reassign_capturista(ws, S("C"), RenderUser, S("Admin"), 0).ws :
                      ws \in first}

InitRender ==
    /\ pickings \in RenderRegistries
    /\ detail = EmptyDetail
    /\ users = add_user(InitialUsers(0), RenderUser, S("CAPTURISTA"), 0).ws
    /\ now = 0
    /\ call = NoCall
    /\ retry = NoRetry
    /\ screen = NoScreen
    /\ procs = [pc |-> "run", picked |-> <<>>]

NextRender == Render \/ PickStatus

\* a script run that was asked for is carried out by the streamlit runtime
SpecRender == InitRender /\ [][NextRender]_vars /\ WF_vars(Render)

\* ------------------------------------------------------------ claims: listing
\* the rows of a folio listed for the user that the user has not touched and
\* whose status is not one of the capturista options
UntouchedOutside(r) ==
    /\ pickings[r][COL_CAPTURISTA] = RenderUser
    /\ pickings[r][COL_ESTATUS] \notin CapturistaChoices
    /\ pickings[r][COL_FOLIO] \notin DOMAIN procs.picked

\* C22: rendering the capturista listing never changes a folio by itself:
\* update_status is invoked for a folio only when the user has picked for
\* it a status different from its current one, a folio assigned to the user
\* whose status is outside the capturista options and that the user does
\* not touch keeps its status across renders, and the render/rerun cycle
\* reaches a state with no further rerun.
C22_RenderChangesNothing ==
    /\ [][(procs.pc = "run" /\ call' # NoCall) =>
            /\ call'.folio \in DOMAIN procs.picked
            /\ \A r \in RowsOfFolio(pickings, call'.folio) :
                   procs.picked[call'.folio] # pickings[r][COL_ESTATUS]]_vars
    /\ [][\A r \in 2..Len(pickings) :
            (UntouchedOutside(r) /\ pickings'[r][COL_FOLIO] \notin DOMAIN procs'.picked)
                => pickings'[r][COL_ESTATUS] = pickings[r][COL_ESTATUS]]_vars
    /\ <>(procs.pc = "idle")

=============================================================================
